---- MODULE Spec2Model ----
(***************************************************************************)
(* moleculer-schema-adapter: the schema registry (settings.schemas), the   *)
(* loaders that populate it from a schema directory, and the action and    *)
(* event gates that consult it.                                            *)
(*                                                                         *)
(* The repository carries two revisions of the adapter: the single-file    *)
(* index.js ("index") and the split revision made of the adapter, its      *)
(* helpers and its errors ("split").  A service runs exactly one of them;  *)
(* the variable `variant` says which, and never changes.                   *)
(***************************************************************************)
EXTENDS Integers, Sequences, FiniteSets, TLC

VARIABLES
    variant,    \* which revision of the adapter the service runs
    cacher,     \* TRUE iff the broker has a cacher (ctx.broker.cacher)
    phase,      \* service lifecycle: "created", "started", "failed"
    schemas,    \* this.settings.schemas: derived name -> schema document
    last,       \* what the most recent operation was given and what it did
    received,   \* events handed to the localEvent wrapper
    delivered,  \* calls of next(payload, sender, topic)
    pending,    \* the rejection of a validateEvent promise whose catch has not run
    conn,           \* ConnectionState of the supervisor of the remote authority
    attemptsMade,   \* RetryBudget.attemptsMade
    retryThreshold, \* RetryBudget.retryThreshold
    timer,          \* "scheduled" while a retry waits for retryTimeout
    probes          \* liveness probes fired since the supervisor was started

supVars == <<conn, attemptsMade, retryThreshold, timer, probes>>
vars == <<variant, cacher, phase, schemas, last, received, delivered, pending,
          conn, attemptsMade, retryThreshold, timer, probes>>

----------------------------------------------------------------------------
(* Bounds *)

MaxEvents == 2
MaxThreshold == 3

----------------------------------------------------------------------------
(* Strings that the code takes apart are sequences of characters. *)

DotJs == <<".", "j", "s">>
DotTs == <<".", "t", "s">>
NameA == <<"a">>
NameB == <<"b">>
NameList == <<"l", "i", "s", "t", "S", "c", "h", "e", "m", "a", "s">>

Min(x, y) == IF x < y THEN x ELSE y
Max(x, y) == IF x > y THEN x ELSE y

\* String.prototype.indexOf: 0-based index of the first occurrence, or -1
indexOf(s, t) ==
    LET hits == { i \in 0..(Len(s) - Len(t)) : SubSeq(s, i + 1, i + Len(t)) = t }
    IN  IF hits = {} THEN -1 ELSE CHOOSE i \in hits : \A j \in hits : i <= j

\* String.prototype.lastIndexOf
lastIndexOf(s, t) ==
    LET hits == { i \in 0..(Len(s) - Len(t)) : SubSeq(s, i + 1, i + Len(t)) = t }
    IN  IF hits = {} THEN -1 ELSE CHOOSE i \in hits : \A j \in hits : i >= j

\* String.prototype.substring: negative arguments count as 0, arguments past
\* the end as the length, and the two are swapped when start > end
substring(s, start, end) ==
    LET a == Min(Max(start, 0), Len(s))
        b == Min(Max(end, 0), Len(s))
    IN  SubSeq(s, Min(a, b) + 1, Max(a, b))

----------------------------------------------------------------------------
(* Schema documents, payloads and the validation engine (Ajv).             *)
(* A document is an object schema that requires some fields, the boolean   *)
(* schema false, or a document that is not a valid JSON schema.            *)

Fields == {"id", "total"}
Payloads == SUBSET Fields

ObjectSchema(req) == [kind |-> "object", required |-> req, value |-> TRUE]
FalseSchema == [kind |-> "boolean", required |-> {}, value |-> FALSE]
InvalidDoc == [kind |-> "invalid", required |-> {}, value |-> TRUE]
Undefined == [kind |-> "undefined", required |-> {}, value |-> FALSE]

ValidDocs == { ObjectSchema({"id"}), ObjectSchema(Fields), FalseSchema }
Docs == ValidDocs \cup { InvalidDoc }

\* ajv.validateSchema(schema)
validateSchema(doc) == doc.kind \in {"object", "boolean"}

\* ajv.validate(schema, data); the caller has made sure schema is a schema
validate(doc, payload) ==
    IF doc.kind = "object" THEN doc.required \subseteq payload ELSE doc.value

\* JavaScript truthiness of a registry entry
Truthy(doc) == doc.kind = "object" \/ (doc.kind = "boolean" /\ doc.value)

\* this.settings.schemas[name]
Lookup(reg, name) == IF name \in DOMAIN reg THEN reg[name] ELSE Undefined

\* obj[name] = value
Store(reg, name, doc) ==
    [n \in DOMAIN reg \cup {name} |-> IF n = name THEN doc ELSE reg[n]]

----------------------------------------------------------------------------
(* The action gate: the before-hook "*" runs validateAction(ctx) ahead of  *)
(* every action of the service.  The result is "proceed" when the hook     *)
(* returns, and otherwise the name of the error it throws.                 *)

\* ctx.action.name, ctx.action.rawName, ctx.params
Ctx(name, rawName, params) == [name |-> name, rawName |-> rawName, params |-> params]

\* the actions of the host service, and the listSchemas action of the mixin
BusinessCalls == { Ctx(NameA, "a", p) : p \in Payloads } \cup { Ctx(NameB, "b", p) : p \in Payloads }
ListCalls == { Ctx(NameList, "listSchemas", p) : p \in Payloads }

\* validateAction without the payload check: a registered name always passes
validateAction_NoCheck(reg, ctx) ==
    IF ctx.rawName = "listSchemas" THEN "proceed"
    ELSE IF Truthy(Lookup(reg, ctx.name)) THEN "proceed"
    ELSE "MISSING_SCHEMA"

\* validateAction that only warns about a missing schema and lets the call pass
validateAction_WarnAndProceed(reg, ctx) ==
    IF ctx.rawName = "listSchemas" THEN "proceed"
    ELSE IF Truthy(Lookup(reg, ctx.name))
         THEN IF ~validate(Lookup(reg, ctx.name), ctx.params)
              THEN "INVALID_PAYLOAD"
              ELSE "proceed"
         ELSE "proceed"

\* split revision: methods.validateAction
validateAction(reg, ctx) ==
    IF ctx.rawName = "listSchemas" THEN "proceed"
    ELSE IF Truthy(Lookup(reg, ctx.name))
         THEN IF ~validate(Lookup(reg, ctx.name), ctx.params)
              THEN "INVALID_PAYLOAD"
              ELSE "proceed"
         ELSE "MISSING_SCHEMA"

\* index.js: methods.validateAction
validateAction_index(reg, ctx) ==
    IF Truthy(Lookup(reg, ctx.name))
    THEN IF ~validate(Lookup(reg, ctx.name), ctx.params)
         THEN "ValidationError"
         ELSE "proceed"
    ELSE "MISSING_SCHEMA"

\* the hook of the revision the service runs
Gate(v, reg, ctx) ==
    IF v = "split" THEN validateAction(reg, ctx) ELSE validateAction_index(reg, ctx)

\* actions.listSchemas: this.settings.schemas || []
listSchemas(reg) == reg

----------------------------------------------------------------------------
(* The event gate: middleware.localEvent wraps the delivery `next`.        *)

\* split revision: methods.validateEvent, which returns or throws
validateEvent(reg, payload, eventName) ==
    IF Truthy(Lookup(reg, eventName))
    THEN IF ~validate(Lookup(reg, eventName), payload)
         THEN "INVALID_PAYLOAD"
         ELSE "ok"
    ELSE "MISSING_SCHEMA"

\* index.js: methods.validateEvent, which returns a promise.  ajv.validate
\* throws inside the executor when the registry has no entry (the schema is
\* undefined), which rejects the promise.
validateEvent_index(reg, payload, eventName) ==
    IF Lookup(reg, eventName) = Undefined THEN "rejected:Error"
    ELSE IF ~validate(Lookup(reg, eventName), payload) THEN "rejected:ValidationError"
    ELSE "resolved"

\* localEvent without the try/catch: the error of validateEvent leaves the
\* wrapper and next is not reached
localEvent_NoCatch(reg, payload, topic) ==
    LET outcome == validateEvent(reg, payload, topic)
    IN  [logged |-> "none",
         raised |-> outcome # "ok",
         nextCalls |-> IF outcome = "ok" THEN 1 ELSE 0,
         deferred |-> "none"]

\* split revision: the wrapper returned by localEvent.  What one delivery
\* does: the error logged by the catch block ("none" when there is none),
\* whether an error leaves the wrapper, and how often next is called.
localEvent(reg, payload, topic) ==
    LET outcome == validateEvent(reg, payload, topic)
    IN  [logged |-> IF outcome = "ok" THEN "none" ELSE outcome,
         raised |-> FALSE,
         nextCalls |-> 1,
         deferred |-> "none"]

\* index.js: the wrapper returned by localEvent.  The promise is created
\* and next is called; the catch callback runs later, as a microtask.
localEvent_index(reg, payload, topic) ==
    LET outcome == validateEvent_index(reg, payload, topic)
    IN  [logged |-> "none",
         raised |-> FALSE,
         nextCalls |-> 1,
         deferred |-> IF outcome = "resolved" THEN "none" ELSE outcome]

Wrapper(v, reg, payload, topic) ==
    IF v = "split" THEN localEvent(reg, payload, topic)
    ELSE localEvent_index(reg, payload, topic)

Topics == {NameA, NameB}

----------------------------------------------------------------------------
(* The schema directory.  A file has a name and what require() makes of    *)
(* it: a document, or a module that does not parse (require throws).       *)

Unparseable == [kind |-> "unparseable", required |-> {}, value |-> FALSE]
Contents == Docs \cup { Unparseable }

File(name, content) == [name |-> name, content |-> content]

FileA_js == NameA \o DotJs
FileA_json == NameA \o <<".", "j", "s", "o", "n">>
FileB_js == NameB \o DotJs
FileB_ts == NameB \o DotTs
FileList_js == NameList \o DotJs

\* the directory listings the loaders are run on, in readdir order
Listings ==
    { <<>>,
      <<FileA_js>>,
      <<FileA_js, FileA_json>>,
      <<FileA_js, FileB_js>>,
      <<FileB_js, FileA_js>>,
      <<FileB_js, FileB_ts>>,
      <<FileList_js, FileA_js>>,
      <<FileA_js, FileA_json, FileB_js>> }

\* a directory that exists, with some content for every file listed
DirsOf(listing) ==
    { [exists |-> TRUE, files |-> [i \in DOMAIN listing |-> File(listing[i], c[i])]] :
        c \in [DOMAIN listing -> Contents] }

MissingDir == [exists |-> FALSE, files |-> <<>>]

Directories == { MissingDir } \cup UNION { DirsOf(l) : l \in Listings }

\* fs.existsSync(`${dir}/${file}`)
existsSync(dir, file) == dir.exists /\ \E i \in DOMAIN dir.files : dir.files[i].name = file

\* require(`${dir}/${file}`), for a file that exists
require(dir, file) ==
    LET i == CHOOSE j \in DOMAIN dir.files : dir.files[j].name = file
    IN  dir.files[i].content

\* the result of a load: the registry afterwards and the error thrown
Outcome(reg, threw) == [schemas |-> reg, threw |-> threw]

----------------------------------------------------------------------------
(* index.js loaders *)

\* index.js: loadSchemaFromDisk(ctx, schemasDirectory, schemaName), with
\* ctx the service.  ctx.broker.cacher is null when no cacher is configured.
loadSchemaFromDisk(reg, hasCacher, dir, schemaName) ==
    LET file == schemaName \o DotJs
    IN  IF ~existsSync(dir, file) THEN Outcome(reg, "PATH_DIRECTORY_DOES_NOT_EXIST")
        ELSE IF require(dir, file) = Unparseable THEN Outcome(reg, "SyntaxError")
        ELSE IF ~validateSchema(require(dir, file)) THEN Outcome(reg, "SCHEMA_INVALID")
        ELSE IF ~hasCacher THEN Outcome(reg, "TypeError")
        ELSE Outcome(Store(reg, schemaName, require(dir, file)), "none")

\* filename.substring(0, filename.indexOf(".js"))
StripJs(filename) == substring(filename, 0, indexOf(filename, DotJs))

\* an array instead of the Set: every file contributes its stripped name
RECURSIVE SetOfNames_NoDedupe(_, _)
SetOfNames_NoDedupe(files, seen) ==
    IF files = <<>> THEN seen
    ELSE SetOfNames_NoDedupe(Tail(files), Append(seen, StripJs(Head(files).name)))

\* new Set() filled in listing order: the distinct stripped names, first seen first
RECURSIVE SetOfNames(_, _)
SetOfNames(files, seen) ==
    IF files = <<>> THEN seen
    ELSE LET n == StripJs(Head(files).name)
         IN  IF \E i \in DOMAIN seen : seen[i] = n
             THEN SetOfNames(Tail(files), seen)
             ELSE SetOfNames(Tail(files), Append(seen, n))

\* the forEach with the failure of an entry caught per entry: the pass
\* goes on to the next name and reports the failure at the end
RECURSIVE LoadEach_Continue(_, _, _, _, _)
LoadEach_Continue(reg, hasCacher, dir, names, loads) ==
    IF names = <<>> THEN [schemas |-> reg, threw |-> "none", loads |-> loads, cause |-> "none"]
    ELSE LET r == loadSchemaFromDisk(reg, hasCacher, dir, Head(names))
             rest == LoadEach_Continue(r.schemas, hasCacher, dir, Tail(names),
                                       Append(loads, Head(names)))
         IN  IF r.threw # "none"
             THEN [schemas |-> rest.schemas, threw |-> "PATH_FAILED_READ_DIRECTORY",
                   loads |-> rest.loads, cause |-> r.threw]
             ELSE rest

\* the forEach over the set: stops at the first entry whose load throws.
\* loads lists the names loadSchemaFromDisk was called with.
RECURSIVE LoadEach(_, _, _, _, _)
LoadEach(reg, hasCacher, dir, names, loads) ==
    IF names = <<>> THEN [schemas |-> reg, threw |-> "none", loads |-> loads, cause |-> "none"]
    ELSE LET r == loadSchemaFromDisk(reg, hasCacher, dir, Head(names))
         IN  IF r.threw # "none"
             THEN [schemas |-> r.schemas, threw |-> "PATH_FAILED_READ_DIRECTORY",
                   loads |-> Append(loads, Head(names)), cause |-> r.threw]
             ELSE LoadEach(r.schemas, hasCacher, dir, Tail(names), Append(loads, Head(names)))

\* index.js: loadAllSchemasFromDisk(ctx, schemasDirectory)
loadAllSchemasFromDisk_index(reg, hasCacher, dir) ==
    IF ~dir.exists
    THEN [schemas |-> reg, threw |-> "PATH_FAILED_READ_DIRECTORY", loads |-> <<>>, cause |-> "ENOENT"]
    ELSE LoadEach(reg, hasCacher, dir, SetOfNames(dir.files, <<>>), <<>>)

----------------------------------------------------------------------------
(* Split revision loaders *)

\* path.extname: from the last "." to the end; "" when there is none or the
\* name starts with it
extname(filename) ==
    LET i == lastIndexOf(filename, <<".">>)
    IN  IF i <= 0 THEN <<>> ELSE substring(filename, i, Len(filename))

\* path.basename(filename, ext)
basename(filename) == substring(filename, 0, Len(filename) - Len(extname(filename)))

\* the extensions option passed to requireDir, in order
Extensions == <<DotTs, DotJs>>

\* the distinct base names of the listing, first seen first
RECURSIVE Bases(_, _)
Bases(files, seen) ==
    IF files = <<>> THEN seen
    ELSE LET b == basename(Head(files).name)
         IN  IF \E i \in DOMAIN seen : seen[i] = b
             THEN Bases(Tail(files), seen)
             ELSE Bases(Tail(files), Append(seen, b))

\* the file requireDir requires for a base: the first extension, in the
\* order of the option, for which base + extension is in the directory
FileOfBase(dir, base) ==
    IF existsSync(dir, base \o Extensions[1]) THEN base \o Extensions[1]
    ELSE IF existsSync(dir, base \o Extensions[2]) THEN base \o Extensions[2]
    ELSE <<>>

\* requireDir(resolvedDirectoryPath, {extensions: [".ts", ".js"]}): one
\* entry per base that has a file with one of the extensions; it throws
\* when the directory cannot be read or a module does not parse
RECURSIVE RequireBases(_, _, _)
RequireBases(dir, bases, entries) ==
    IF bases = <<>> THEN [threw |-> "none", entries |-> entries]
    ELSE LET f == FileOfBase(dir, Head(bases))
         IN  IF f = <<>> THEN RequireBases(dir, Tail(bases), entries)
             ELSE IF require(dir, f) = Unparseable
                  THEN [threw |-> "SyntaxError", entries |-> <<>>]
                  ELSE RequireBases(dir, Tail(bases),
                           Append(entries, [name |-> Head(bases), schema |-> require(dir, f)]))

requireDir(dir) ==
    IF ~dir.exists THEN [threw |-> "ENOENT", entries |-> <<>>]
    ELSE RequireBases(dir, Bases(dir.files, <<>>), <<>>)

\* processSchema that caches the schema before validating it
processSchema_StoreFirst(reg, schemaName, schema) ==
    Outcome(Store(reg, schemaName, schema),
            IF ~validateSchema(schema) THEN "SCHEMA_INVALID" ELSE "none")

\* processSchema that drops the entry of a name it finds already cached
processSchema_Evict(reg, schemaName, schema) ==
    IF ~validateSchema(schema) THEN Outcome(reg, "SCHEMA_INVALID")
    ELSE IF schemaName \in DOMAIN reg
         THEN Outcome([n \in DOMAIN reg \ {schemaName} |-> reg[n]], "none")
         ELSE Outcome(Store(reg, schemaName, schema), "none")

\* helpers: processSchema(ctx, schemaName, schema), with ctx the service
processSchema(reg, schemaName, schema) ==
    IF ~validateSchema(schema) THEN Outcome(reg, "SCHEMA_INVALID")
    ELSE Outcome(Store(reg, schemaName, schema), "none")

\* schemasMap.forEach: stops at the first entry whose processing throws
RECURSIVE ProcessEach(_, _, _)
ProcessEach(reg, entries, loads) ==
    IF entries = <<>> THEN [schemas |-> reg, threw |-> "none", loads |-> loads, cause |-> "none"]
    ELSE LET r == processSchema(reg, Head(entries).name, Head(entries).schema)
         IN  IF r.threw # "none"
             THEN [schemas |-> r.schemas, threw |-> "PATH_FAILED_TO_PROCESS_SCHEMA",
                   loads |-> Append(loads, Head(entries).name), cause |-> r.threw]
             ELSE ProcessEach(r.schemas, Tail(entries), Append(loads, Head(entries).name))

\* helpers: loadAllSchemasFromDisk(ctx, schemasDirectory)
loadAllSchemasFromDisk(reg, dir) ==
    LET schemasMap == requireDir(dir)
    IN  IF schemasMap.threw # "none"
        THEN [schemas |-> reg, threw |-> "PATH_FAILED_READ_DIRECTORY",
              loads |-> <<>>, cause |-> schemasMap.threw]
        ELSE ProcessEach(reg, schemasMap.entries, <<>>)

----------------------------------------------------------------------------
(* The started lifecycle hook.  configured says whether a schema directory *)
(* is configured: process.env.SCHEMA_DIR in index.js, settings.schemaDir   *)
(* in the split revision (path.resolve(undefined) throws a TypeError).     *)

NotRun(reg, threw) == [schemas |-> reg, threw |-> threw, loads |-> <<>>, cause |-> "none"]

\* index.js: mixin.started
started_index(reg, hasCacher, configured, dir) ==
    IF configured THEN loadAllSchemasFromDisk_index(reg, hasCacher, dir)
    ELSE NotRun(reg, "MISSING_SCHEMA_DIR_ENV_VAR")

\* started with the loader's error caught and logged
started_Swallow(reg, configured, dir) ==
    IF configured
    THEN [loadAllSchemasFromDisk(reg, dir) EXCEPT !.threw = "none"]
    ELSE NotRun(reg, "none")

\* split revision: mixin.started
started(reg, configured, dir) ==
    IF configured THEN loadAllSchemasFromDisk(reg, dir)
    ELSE NotRun(reg, "TypeError")

StartedHook(v, reg, hasCacher, configured, dir) ==
    IF v = "split" THEN started(reg, configured, dir)
    ELSE started_index(reg, hasCacher, configured, dir)

----------------------------------------------------------------------------
(* State machine *)

EmptyRegistry == [n \in {} |-> Undefined]

Init ==
    /\ variant \in {"index", "split"}
    /\ cacher \in BOOLEAN
    \* the split revision stores a schema whether or not a cacher is set
    /\ variant = "split" => cacher
    /\ phase = "created"
    /\ schemas = EmptyRegistry
    /\ last = [op |-> "none"]
    /\ received = 0
    /\ delivered = 0
    /\ pending = "none"
    /\ conn = "Disconnected"
    /\ attemptsMade = 0
    /\ retryThreshold = 1
    /\ timer = "none"
    /\ probes = 0

\* The broker starts the service: the started hook runs the population
\* pass.  The service is registered, and serves calls, only when the hook
\* returns; when it throws, the start of the service fails.
Started ==
    /\ phase \in {"created", "stopped"}
    /\ \E configured \in BOOLEAN, dir \in Directories :
         LET r == StartedHook(variant, schemas, cacher, configured, dir)
         IN  /\ schemas' = r.schemas
             /\ phase' = IF r.threw = "none" THEN "started" ELSE "failed"
             /\ last' = [op |-> "started", configured |-> configured, dir |-> dir,
                         before |-> schemas, threw |-> r.threw, cause |-> r.cause,
                         loads |-> r.loads]
    /\ UNCHANGED <<variant, cacher, received, delivered, pending>>
    /\ UNCHANGED supVars

\* The broker stops the service, or tears down one whose start failed; the
\* service object, and with it settings.schemas, lives on.
Stop ==
    /\ phase \in {"started", "failed"}
    /\ pending = "none"
    /\ phase' = "stopped"
    /\ last' = [op |-> "stop"]
    /\ UNCHANGED <<variant, cacher, schemas, received, delivered, pending>>
    /\ UNCHANGED supVars

\* the gate dropping the schema a payload failed against
ValidateAction_Evict ==
    /\ phase = "started"
    /\ pending = "none"
    /\ \E ctx \in BusinessCalls :
         LET g == Gate(variant, schemas, ctx)
         IN  /\ last' = [op |-> "action", ctx |-> ctx, gate |-> g,
                         handler |-> IF g = "proceed" THEN "business" ELSE "none"]
             /\ schemas' = IF g \notin {"proceed", "MISSING_SCHEMA"}
                           THEN [n \in DOMAIN schemas \ {ctx.name} |-> schemas[n]]
                           ELSE schemas
    /\ UNCHANGED <<variant, cacher, phase, received, delivered, pending>>
    /\ UNCHANGED supVars

\* An action of the host service is called: the before-hook runs, and the
\* business logic runs when the hook returns.
ValidateAction ==
    /\ phase = "started"
    /\ pending = "none"
    /\ \E ctx \in BusinessCalls :
         LET g == Gate(variant, schemas, ctx)
         IN  last' = [op |-> "action", ctx |-> ctx, gate |-> g,
                      handler |-> IF g = "proceed" THEN "business" ELSE "none"]
    /\ UNCHANGED <<variant, cacher, phase, schemas, received, delivered, pending>>
    /\ UNCHANGED supVars

\* The listSchemas action of the mixin is called: the same before-hook
\* runs, and the handler returns the registry when the hook returns.
ListSchemas ==
    /\ phase = "started"
    /\ pending = "none"
    /\ \E ctx \in ListCalls :
         LET g == Gate(variant, schemas, ctx)
         IN  last' = [op |-> "action", ctx |-> ctx, gate |-> g,
                      handler |-> IF g = "proceed" THEN "listSchemas" ELSE "none",
                      result |-> IF g = "proceed" THEN listSchemas(schemas) ELSE EmptyRegistry]
    /\ UNCHANGED <<variant, cacher, phase, schemas, received, delivered, pending>>
    /\ UNCHANGED supVars

\* An event is received: the wrapper validates it and calls next.
LocalEvent ==
    /\ phase = "started"
    /\ pending = "none"
    /\ received < MaxEvents
    /\ \E payload \in Payloads, topic \in Topics :
         LET w == Wrapper(variant, schemas, payload, topic)
         IN  /\ received' = received + 1
             /\ delivered' = delivered + w.nextCalls
             /\ pending' = w.deferred
             /\ last' = [op |-> "localEvent", topic |-> topic, payload |-> payload,
                         logged |-> w.logged, raised |-> w.raised,
                         nextCalls |-> w.nextCalls]
    /\ UNCHANGED <<variant, cacher, phase, schemas>>
    /\ UNCHANGED supVars

\* index.js: the catch callback of a rejected validateEvent promise runs,
\* as a microtask, before anything else the service does; it logs the error.
CatchRejection ==
    /\ pending # "none"
    /\ pending' = "none"
    /\ last' = [op |-> "catch", logged |-> pending, raised |-> FALSE]
    /\ UNCHANGED <<variant, cacher, phase, schemas, received, delivered>>
    /\ UNCHANGED supVars

\* the directories the loadSchemaFromDisk method is called on
MethodDirs == DirsOf(<<FileA_js>>) \cup DirsOf(<<FileB_js>>) \cup { MissingDir }

\* index.js: the service calls its method loadSchemaFromDisk(this, dir, name)
LoadSchemaFromDisk ==
    /\ variant = "index"
    /\ phase = "started"
    /\ pending = "none"
    /\ \E dir \in MethodDirs, name \in {NameA, NameB} :
         LET r == loadSchemaFromDisk(schemas, cacher, dir, name)
         IN  /\ schemas' = r.schemas
             /\ last' = [op |-> "loadSchemaFromDisk", name |-> name, dir |-> dir,
                         before |-> schemas, threw |-> r.threw]
    /\ UNCHANGED <<variant, cacher, phase, received, delivered, pending>>
    /\ UNCHANGED supVars

Next ==
    \/ Started
    \/ Stop
    \/ ValidateAction
    \/ ListSchemas
    \/ LocalEvent
    \/ CatchRejection
    \/ LoadSchemaFromDisk

Spec == Init /\ [][Next]_vars

----------------------------------------------------------------------------
(* The remote schema authority: ConnectionSupervisor and RemoteFetcher.    *)
(* The README names the Schema service, its lookup action and the wait     *)
(* time; the supervisor itself is described in the specification           *)
(* (sections 3, 4.3 and 4.4), from which this part is taken.               *)

\* the threshold compared with > instead of >=
ThresholdReached_OffByOne(made, threshold) == made > threshold

\* "once attemptsMade >= retryThreshold, the supervisor transitions to Exhausted"
ThresholdReached(made, threshold) == made >= threshold

\* start(endpoint, retryThreshold, retryTimeout): to Connecting, first probe
SupStart ==
    /\ conn = "Disconnected"
    /\ timer = "none"
    /\ \E n \in 1..MaxThreshold : retryThreshold' = n
    /\ conn' = "Connecting"
    /\ attemptsMade' = 0
    /\ probes' = 1
    /\ timer' = "none"
    /\ UNCHANGED <<variant, cacher, phase, schemas, last, received, delivered, pending>>

\* the liveness probe succeeds
ProbeSucceeds ==
    /\ conn = "Connecting"
    /\ conn' = "Connected"
    /\ UNCHANGED <<attemptsMade, retryThreshold, timer, probes>>
    /\ UNCHANGED <<variant, cacher, phase, schemas, last, received, delivered, pending>>

\* the liveness probe fails: count it, then retry after retryTimeout or give up
ProbeFails ==
    /\ conn = "Connecting"
    /\ attemptsMade' = attemptsMade + 1
    /\ IF ThresholdReached(attemptsMade + 1, retryThreshold)
       THEN conn' = "Exhausted" /\ timer' = "none"
       ELSE conn' = "Disconnected" /\ timer' = "scheduled"
    /\ UNCHANGED <<retryThreshold, probes>>
    /\ UNCHANGED <<variant, cacher, phase, schemas, last, received, delivered, pending>>

\* retryTimeout has passed: the scheduled attempt fires
RetryTimer ==
    /\ timer = "scheduled"
    /\ timer' = "none"
    /\ conn' = "Connecting"
    /\ probes' = probes + 1
    /\ UNCHANGED <<attemptsMade, retryThreshold>>
    /\ UNCHANGED <<variant, cacher, phase, schemas, last, received, delivered, pending>>

\* explicit stop/teardown of a supervisor that is not exhausted: pending
\* retries are halted
SupStop ==
    /\ conn \in {"Connecting", "Connected"} \/ timer = "scheduled"
    /\ conn' = "Disconnected"
    /\ timer' = "none"
    /\ attemptsMade' = 0
    /\ probes' = 0
    /\ UNCHANGED retryThreshold
    /\ UNCHANGED <<variant, cacher, phase, schemas, last, received, delivered, pending>>

\* manual restart of an exhausted supervisor
SupRestart ==
    /\ conn = "Exhausted"
    /\ conn' = "Disconnected"
    /\ timer' = "none"
    /\ attemptsMade' = 0
    /\ probes' = 0
    /\ UNCHANGED retryThreshold
    /\ UNCHANGED <<variant, cacher, phase, schemas, last, received, delivered, pending>>

\* RemoteFetcher.fetch(endpoint, name) for a name the service declares: the
\* authority has no schema for it (None), or returns a document, which is
\* fed to the registry's load
Fetch ==
    /\ conn = "Connected"
    /\ \E name \in {NameA, NameB} :
         \/ /\ last' = [op |-> "fetch", name |-> name, found |-> FALSE, threw |-> "none"]
            /\ UNCHANGED schemas
         \/ \E doc \in Docs :
              LET r == processSchema(schemas, name, doc)
              IN  /\ schemas' = r.schemas
                  /\ last' = [op |-> "fetch", name |-> name, found |-> TRUE, threw |-> r.threw]
    /\ UNCHANGED supVars
    /\ UNCHANGED <<variant, cacher, phase, received, delivered, pending>>

SupNext ==
    \/ SupStart
    \/ ProbeSucceeds
    \/ ProbeFails
    \/ RetryTimer
    \/ SupStop
    \/ SupRestart
    \/ Fetch

SupSpec == Init /\ [][SupNext]_vars

----------------------------------------------------------------------------
(* What a directory holds, stated apart from the loaders *)

Range(seq) == { seq[i] : i \in DOMAIN seq }
NoDuplicates(seq) == \A i, j \in DOMAIN seq : seq[i] = seq[j] => i = j

\* the logical name a revision derives from a file name
DerivedName(v, filename) == IF v = "split" THEN basename(filename) ELSE StripJs(filename)

\* the names a pass over the directory is to load
DerivedNames(v, dir) ==
    IF v = "split"
    THEN { basename(dir.files[i].name) : i \in { j \in DOMAIN dir.files :
               extname(dir.files[j].name) \in Range(Extensions) } }
    ELSE { StripJs(dir.files[i].name) : i \in DOMAIN dir.files }

\* where in the listing a name is first seen
FirstPos(v, dir, n) ==
    LET at == { i \in DOMAIN dir.files : DerivedName(v, dir.files[i].name) = n }
    IN  CHOOSE i \in at : \A j \in at : i <= j

\* the document the directory holds for a name; Undefined when it has no file
DocOf(v, dir, n) ==
    IF v = "split"
    THEN IF FileOfBase(dir, n) = <<>> THEN Undefined ELSE require(dir, FileOfBase(dir, n))
    ELSE IF existsSync(dir, n \o DotJs) THEN require(dir, n \o DotJs) ELSE Undefined

\* the names whose load cannot succeed
FailingNames(v, hasCacher, dir) ==
    { n \in DerivedNames(v, dir) :
        ~validateSchema(DocOf(v, dir, n)) \/ (v = "index" /\ ~hasCacher) }

\* the names whose document is a valid schema
ValidNames(v, dir) == { n \in DerivedNames(v, dir) : validateSchema(DocOf(v, dir, n)) }

PopulationFails(v, hasCacher, configured, dir) ==
    ~configured \/ ~dir.exists \/ FailingNames(v, hasCacher, dir) # {}

\* ctx is a call of the split revision's own listSchemas action
Bypassed(v, ctx) == v = "split" /\ ctx.rawName = "listSchemas"

----------------------------------------------------------------------------
(* Claims *)

\* C1, as stated: for every name that has a schema in the registry and every
\* payload, the action gate lets the call proceed if and only if the
\* validation engine accepts the payload against that schema.
C1_Original ==
    (last.op = "action" /\ last.ctx.name \in DOMAIN schemas)
        => ((last.gate = "proceed") <=> validate(schemas[last.ctx.name], last.ctx.params))

\* C1, amended: for every name that has a schema in the registry and every
\* payload, the action gate lets the call proceed if and only if the engine
\* accepts the payload, and a rejected call does not reach its handler;
\* except that the split revision lets every call of its own listSchemas
\* action pass without consulting the registry.
C1_GateIffEngine ==
    (last.op = "action" /\ last.ctx.name \in DOMAIN schemas /\ ~Bypassed(variant, last.ctx))
        => /\ (last.gate = "proceed") <=> validate(schemas[last.ctx.name], last.ctx.params)
           /\ ~validate(schemas[last.ctx.name], last.ctx.params)
                 => (last.handler = "none" /\ last.gate # "proceed")

C1_Witness ==
    /\ last.op = "action"
    /\ last.ctx.name \in DOMAIN schemas
    /\ ~Bypassed(variant, last.ctx)
    /\ schemas[last.ctx.name].kind = "object"
    /\ last.gate \in {"INVALID_PAYLOAD", "ValidationError"}

\* C2, as stated: a call under a name that has no schema in the registry
\* proceeds to business logic.
C2_Original ==
    (last.op = "action" /\ last.ctx.name \notin DOMAIN schemas)
        => (last.gate = "proceed" /\ last.handler # "none")

\* C2, amended: a call under a name that has no schema in the registry is
\* refused by the action gate with MISSING_SCHEMA and does not reach its
\* handler; there is no policy that lets it proceed.  Only the split
\* revision's own listSchemas action passes.
C2_MissingSchemaRefused ==
    (last.op = "action" /\ last.ctx.name \notin DOMAIN schemas /\ ~Bypassed(variant, last.ctx))
        => (last.gate = "MISSING_SCHEMA" /\ last.handler = "none")

C2_Witness ==
    /\ last.op = "action"
    /\ last.ctx.name \notin DOMAIN schemas
    /\ last.ctx.rawName # "listSchemas"
    /\ DOMAIN schemas # {}
    /\ last.gate = "MISSING_SCHEMA"

\* the engine does not accept the payload of an event under the registry
EventFails(reg, payload, topic) ==
    ~(topic \in DOMAIN reg /\ validate(reg[topic], payload))

\* C3: for every received event, whatever the validation outcome, the event
\* gate raises no error into the delivery path and calls next exactly once;
\* a failure is recorded as a diagnostic (logged at once, or by the catch
\* callback of the rejected promise), and only then.
C3_EventAlwaysDelivered ==
    /\ delivered = received
    /\ last.op = "localEvent"
         => /\ ~last.raised
            /\ last.nextCalls = 1
            /\ EventFails(schemas, last.payload, last.topic)
                 <=> (last.logged # "none" \/ pending # "none")
    /\ last.op = "catch" => (~last.raised /\ last.logged # "none")

C3_Witness ==
    /\ last.op = "localEvent"
    /\ variant = "split"
    /\ last.topic \in DOMAIN schemas
    /\ last.logged = "INVALID_PAYLOAD"
    /\ delivered = MaxEvents

\* C4: every name in the registry maps to a document that passed schema
\* validation; a load of a document that fails it raises SCHEMA_INVALID and
\* leaves the registry as it was, the name not registered by that load.
C4_RegistryHoldsValidSchemas ==
    /\ \A n \in DOMAIN schemas : validateSchema(schemas[n])
    /\ (last.op = "loadSchemaFromDisk" /\ DocOf("index", last.dir, last.name) = InvalidDoc)
         => (last.threw = "SCHEMA_INVALID" /\ schemas = last.before)
    /\ (last.op = "started" /\ last.cause = "SCHEMA_INVALID")
         => /\ last.loads # <<>>
            /\ DocOf(variant, last.dir, last.loads[Len(last.loads)]) = InvalidDoc
            /\ Lookup(schemas, last.loads[Len(last.loads)])
                 = Lookup(last.before, last.loads[Len(last.loads)])
            /\ \A n \in DOMAIN schemas \ DOMAIN last.before : validateSchema(DocOf(variant, last.dir, n))

C4_Witness ==
    /\ last.op = "started"
    /\ variant = "split"
    /\ last.cause = "SCHEMA_INVALID"
    /\ Len(last.loads) > 1
    /\ last.loads[Len(last.loads)] \notin DOMAIN schemas

\* the first name of the listing whose load cannot succeed
FirstFailing(v, hasCacher, dir) ==
    CHOOSE n \in FailingNames(v, hasCacher, dir) :
        \A m \in FailingNames(v, hasCacher, dir) : FirstPos(v, dir, n) <= FirstPos(v, dir, m)

PassErrors == {"PATH_FAILED_READ_DIRECTORY", "PATH_FAILED_TO_PROCESS_SCHEMA"}

\* C5, as stated, of the loader of index.js: in a population pass, the
\* failure of one name fails only that name; every name whose document is
\* valid is registered by the end of the pass.
C5_Original ==
    (last.op = "started" /\ variant = "index" /\ cacher /\ last.configured /\ last.dir.exists)
        => \A n \in ValidNames(variant, last.dir) : n \in DOMAIN schemas

\* C5, amended: in a population pass, the first name whose load fails aborts
\* the pass: the loader throws PATH_FAILED_READ_DIRECTORY or
\* PATH_FAILED_TO_PROCESS_SCHEMA, and the names that come after the failing
\* one are not loaded, so their registry entries are what they were before
\* the pass, also when their documents are valid.
C5_PassAbortsAtFirstFailure ==
    (/\ last.op = "started"
     /\ last.configured
     /\ last.dir.exists
     /\ FailingNames(variant, cacher, last.dir) # {})
        => /\ last.threw \in PassErrors
           /\ \A n \in DerivedNames(variant, last.dir) :
                FirstPos(variant, last.dir, n)
                    > FirstPos(variant, last.dir, FirstFailing(variant, cacher, last.dir))
                  => /\ Lookup(schemas, n) = Lookup(last.before, n)
                     /\ n \notin Range(last.loads)

C5_Witness ==
    /\ last.op = "started"
    /\ variant = "index"
    /\ cacher
    /\ last.configured
    /\ last.dir.exists
    /\ last.cause \in {"SCHEMA_INVALID", "SyntaxError"}
    /\ \E n \in ValidNames(variant, last.dir) :
         /\ FirstPos(variant, last.dir, n)
              > FirstPos(variant, last.dir, FirstFailing(variant, cacher, last.dir))
         /\ n \notin DOMAIN schemas

\* C6, as stated: a failure of the startup population does not stop the
\* service from starting; the started hook completes.
C6_Original ==
    last.op = "started" => phase = "started"

\* C6, amended: a failure of the startup population (no directory
\* configured, directory missing, or a schema failing to load) makes the
\* started hook throw the loader's error, so the start of the service
\* fails; the registry keeps the entries it had and those stored before the
\* failure.  The hook completes exactly when the population has no failure.
C6_StartupFailureFailsStart ==
    last.op = "started"
        => /\ PopulationFails(variant, cacher, last.configured, last.dir)
                => /\ phase = "failed"
                   /\ last.threw \in PassErrors \cup {"MISSING_SCHEMA_DIR_ENV_VAR", "TypeError"}
                   /\ DOMAIN last.before \subseteq DOMAIN schemas
           /\ ~PopulationFails(variant, cacher, last.configured, last.dir)
                => /\ phase = "started"
                   /\ last.threw = "none"

C6_Witness ==
    /\ last.op = "started"
    /\ last.configured
    /\ last.dir.exists
    /\ FailingNames(variant, cacher, last.dir) # {}
    /\ phase = "failed"
    /\ DOMAIN schemas # DOMAIN last.before

\* C7, as stated: a directory scan loads exactly one document per distinct
\* derived name, and every file of the directory has its stripped name
\* loaded.
C7_Original ==
    (last.op = "started" /\ variant = "index" /\ cacher /\ last.configured /\ last.dir.exists)
        => /\ NoDuplicates(last.loads)
           /\ \A i \in DOMAIN last.dir.files :
                StripJs(last.dir.files[i].name) \in Range(last.loads)

\* C7, amended: a directory scan calls the loader at most once per distinct
\* derived name, and only for names derived from the files; when the pass
\* completes without throwing, every file of the directory has its stripped
\* name loaded exactly once and registered with the document of <name>.js.
C7_OneLoadPerName ==
    (last.op = "started" /\ variant = "index" /\ last.configured /\ last.dir.exists)
        => /\ NoDuplicates(last.loads)
           /\ Range(last.loads) \subseteq DerivedNames("index", last.dir)
           /\ last.threw = "none"
                => \A i \in DOMAIN last.dir.files :
                     LET n == StripJs(last.dir.files[i].name)
                     IN  /\ n \in Range(last.loads)
                         /\ n \in DOMAIN schemas
                         /\ schemas[n] = require(last.dir, n \o DotJs)

C7_Witness ==
    /\ last.op = "started"
    /\ variant = "index"
    /\ last.threw = "none"
    /\ last.loads # <<>>
    /\ Len(last.dir.files) > Len(last.loads)

\* C8: with retry threshold N, N consecutive failed probes move the
\* supervisor to Exhausted; no more than N probes are ever fired after a
\* start, and once Exhausted no attempt is scheduled or fired and the state
\* stays Exhausted until a manual restart.
C8_ExhaustedIsTerminal ==
    /\ [](/\ probes <= retryThreshold
          /\ conn = "Exhausted"
               => (attemptsMade = retryThreshold /\ probes = retryThreshold /\ timer = "none")
          /\ attemptsMade >= retryThreshold => conn = "Exhausted")
    /\ [][conn = "Exhausted"
            => \/ conn' = "Exhausted" /\ probes' = probes /\ timer' = "none"
               \/ conn' = "Disconnected" /\ probes' = 0 /\ timer' = "none"]_vars

C8_Witness ==
    /\ conn = "Exhausted"
    /\ retryThreshold = MaxThreshold
    /\ probes = MaxThreshold
    /\ attemptsMade = MaxThreshold

\* every name of a pass, or the name of a single load, was already
\* registered with the very document that is loaded
IsReload ==
    \/ /\ last.op = "started"
       /\ last.threw = "none"
       /\ last.loads # <<>>
       /\ \A i \in DOMAIN last.loads :
            Lookup(last.before, last.loads[i]) = DocOf(variant, last.dir, last.loads[i])
    \/ /\ last.op = "loadSchemaFromDisk"
       /\ last.threw = "none"
       /\ Lookup(last.before, last.name) = DocOf("index", last.dir, last.name)

\* C9: loading a name again with the same valid document leaves the
\* registry as it was after the first load, so the gates give the same
\* outcome for every call and every event before and after the re-load.
C9_ReloadIdempotent ==
    IsReload
        => /\ schemas = last.before
           /\ \A ctx \in BusinessCalls \cup ListCalls :
                Gate(variant, schemas, ctx) = Gate(variant, last.before, ctx)
           /\ \A p \in Payloads, t \in Topics :
                Wrapper(variant, schemas, p, t) = Wrapper(variant, last.before, p, t)

C9_Witness ==
    /\ IsReload
    /\ variant = "split"
    /\ last.op = "started"
    /\ Len(last.loads) > 1

\* C10: only loading changes the registry: a call of the action gate, of
\* the event gate (and the catch callback of its promise) or of listSchemas
\* leaves the registered names and their documents as they were, and
\* listSchemas returns that registry.
C10_OnlyLoadingChangesRegistry ==
    [][last'.op \in {"action", "localEvent", "catch"}
         => /\ schemas' = schemas
            /\ (last'.op = "action" /\ last'.handler = "listSchemas")
                 => last'.result = schemas]_vars

C10_Witness ==
    /\ last.op = "action"
    /\ last.gate \in {"INVALID_PAYLOAD", "ValidationError"}
    /\ Cardinality(DOMAIN schemas) > 1

\* C11: a call of the listSchemas action is never refused by the action
\* gate, in any registry state (an empty registry, or one with no schema
\* under that action's name, included): the before-hook lets it through and
\* the handler returns the current registry.
C11_ListSchemasNeverRefused ==
    (last.op = "action" /\ last.ctx.rawName = "listSchemas")
        => /\ last.gate = "proceed"
           /\ last.handler = "listSchemas"
           /\ last.result = schemas

====
